---- MODULE Spec2Model ----
(***************************************************************************)
(* The answer protocol of govready-q's guided modules: the next_question   *)
(* view (guidedmodules/views.py) over the Task / TaskAnswer /              *)
(* TaskAnswerHistory store.  Each database statement of the view commits   *)
(* on its own: next_question opens no transaction (the module imports      *)
(* django.db.transaction and never uses it).                               *)
(***************************************************************************)
EXTENDS Integers, Sequences, FiniteSets, Bags, TLC

\* ---------------------------------------------------------------- bounds
\* rows the database may hold: Task + TaskAnswer + TaskAnswerHistory
MaxRows == 7
\* the same, while requests run concurrently
MaxConcRows == 6
\* the same, Discussion rows counted too, while discussions are started and
\* the homepage is served
MaxViewRows == 5
\* the same, while two requests save at the same time
MaxRaceRows == 5
\* the same, for the tasks of the modules whose definition has a bug
MaxDefsRows == 7
\* the invitations that are sent
MaxInvitations == 1
\* the InstrumentationEvent rows that are kept
MaxEvents == 3
\* the rows of the database while the pages of deleted tasks are served
MaxDeletedRows == 4
\* the rows of the database while editorships are transferred
MaxTransferRows == 3

\* ------------------------------------------------------------ the world
None == "None"
\* the users who send requests; carol only owns a task
Users == {"alice", "bob"}
\* two organizations, with one project each
Orgs == {"O1", "O2"}
Projects == {"P1", "P2"}
ProjectOrg(p) == IF p = "P1" THEN "O1" ELSE "O2"
\* ProjectMembership rows: bob is a member of both projects, and a member
\* may read every task of the project
ProjectMembers(p) == {"bob"}
Modules == {"M1", "M2", "M3", "M4", "M5", "M6"}

\* Module definitions (external data).  M1: qa, qb (asked iff qa = "yes"),
\* qm (answered by one M1 task), qs (answered by a set of M2 tasks).
\* M2 asks nothing.  M3: A, and B (asked iff A = "yes").
\* Two modules have a bug in their definition.  M4 asks nothing and its
\* output template uses the variable "zz".  M5: Z, asked iff "nokey" = "yes",
\* and M5 has no question "nokey".  M6: F, answered by an uploaded file.
Questions == {"qa", "qb", "qm", "qs", "A", "B", "Z", "F"}

QModule(q) ==
    IF q \in {"A", "B"} THEN "M3"
    ELSE IF q = "Z" THEN "M5"
    ELSE IF q = "F" THEN "M6"
    ELSE "M1"

QType(q) ==
    CASE q = "qa" -> "choice"
      [] q = "qb" -> "text"
      [] q = "qm" -> "module"
      [] q = "qs" -> "module-set"
      [] q = "A" -> "choice"
      [] q = "B" -> "text"
      [] q = "Z" -> "text"
      [] q = "F" -> "file"

answer_type_module(q) ==
    CASE q = "qm" -> "M1"
      [] q = "qs" -> "M2"
      [] OTHER -> None

DefinitionOrder(m) ==
    CASE m = "M1" -> <<"qa", "qb", "qm", "qs">>
      [] m = "M3" -> <<"A", "B">>
      [] m = "M5" -> <<"Z">>
      [] m = "M6" -> <<"F">>
      [] OTHER -> <<>>

NoCond == [dep |-> None, eq |-> None]
QCond(q) ==
    CASE q = "qb" -> [dep |-> "qa", eq |-> "yes"]
      [] q = "B" -> [dep |-> "A", eq |-> "yes"]
      [] q = "Z" -> [dep |-> "nokey", eq |-> "yes"]
      [] OTHER -> NoCond

\* the variables that the output documents of the module use; a module
\* with none has no output document
OutputVars(m) ==
    CASE m = "M3" -> {"A"}
      [] m = "M4" -> {"zz"}
      [] OTHER -> {}

\* ---------------------------------------------------------------- state
VARIABLES
    tasks,      \* Task rows, by id: [module, editor, project]
    answers,    \* TaskAnswer rows: the set of <<task id, question>>
    history,    \* TaskAnswerHistory rows of each TaskAnswer, oldest first
    resp,       \* the last response
    inflight,   \* of each session, the POST request that is between two
                \* of its commits
    discussions, \* Discussion rows: <<organization, task id, question>>
    deleted,    \* the ids of the Tasks whose deleted_at is set
    invitations, \* Invitation rows, by id
    memberships, \* ProjectMembership rows made by accepted invitations
    events      \* InstrumentationEvent rows, a bag of
                \* <<user, event type, task id, question>>

\* what the actions of next_question and start_a_discussion leave as it is.
\* The InstrumentationEvent rows are kept, in events, by the actions of the
\* instrumentation section alone; the other actions of next_question tell
\* the event they record in the response (resp.event).
site == <<deleted, invitations, memberships, events>>

vars == <<tasks, answers, history, resp, inflight, discussions, deleted,
          invitations, memberships, events>>

Range(s) == {s[i] : i \in 1..Len(s)}

TaskExists(ts, t) == t \in 1..Len(ts)

\* Permission predicates supplied by the host.
has_write_priv(ts, t, u) == ts[t].editor = u
has_read_priv(ts, t, u) == ts[t].editor = u \/ u \in ProjectMembers(ts[t].project)

\* line 31: the task exists in the organization of the request
TaskInOrg(ts, t, o) == TaskExists(ts, t) /\ ProjectOrg(ts[t].project) = o

\* ------------------------------------------------------- the Answer Store
NoAnswer == [stored_value |-> None, answered_by_task |-> {},
             answered_by_file |-> None, cleared |-> TRUE]

get_current_answer(h) == IF Len(h) = 0 THEN NoAnswer ELSE h[Len(h)]

has_answer(h) == Len(h) > 0 /\ ~h[Len(h)].cleared

NewEntry(value, by, file) ==
    [stored_value |-> value, answered_by_task |-> by,
     answered_by_file |-> file, cleared |-> FALSE]

\* save_answer returns whether the answer changed
AnswerDiffers(h, value, by, file) ==
    \/ ~has_answer(h)
    \/ get_current_answer(h) # NewEntry(value, by, file)

save_answer(h, value, by, file) ==
    IF AnswerDiffers(h, value, by, file)
    THEN Append(h, NewEntry(value, by, file))
    ELSE h

clear_answer(h) ==
    IF has_answer(h)
    THEN Append(h, [stored_value |-> None, answered_by_task |-> {},
                    answered_by_file |-> None, cleared |-> TRUE])
    ELSE h

\* -------------------------------------------------- the Dependency Resolver
\* task.get_answers().with_extended_info(): what is answered, what is
\* imputed, and which questions can be answered now.
\* the history of (t, q); there is none while the TaskAnswer row is missing
Hist(ans, hist, t, q) == IF <<t, q>> \in ans THEN hist[<<t, q>>] ELSE <<>>

Answered(ans, hist, t, q) == has_answer(Hist(ans, hist, t, q))

\* a condition that is never found to refer to an undefined key
ConfigurationError_Never(m) == FALSE

\* the module has a question whose condition refers to a key that is not
\* the key of one of its questions: resolution raises
ConfigurationError(m) ==
    \E i \in 1..Len(DefinitionOrder(m)) :
        \E c \in {QCond(DefinitionOrder(m)[i])} :
            c # NoCond /\ \A j \in 1..Len(DefinitionOrder(m)) :
                              DefinitionOrder(m)[j] # c.dep

RECURSIVE Resolved(_, _, _, _), KnownValue(_, _, _, _)

\* a question asked whether or not its ask-condition holds
CanAnswerNow_IgnoresCondition(ans, hist, t, q) == ~Answered(ans, hist, t, q)

\* the ask-condition of q holds on the values known so far
Visible(ans, hist, t, q) ==
    \/ QCond(q) = NoCond
    \/ /\ Resolved(ans, hist, t, QCond(q).dep)
       /\ KnownValue(ans, hist, t, QCond(q).dep) = QCond(q).eq

\* the ask-condition of q is decided and false: q is imputed null
Imputed(ans, hist, t, q) ==
    /\ QCond(q) # NoCond
    /\ Resolved(ans, hist, t, QCond(q).dep)
    /\ KnownValue(ans, hist, t, QCond(q).dep) # QCond(q).eq

Resolved(ans, hist, t, q) ==
    Imputed(ans, hist, t, q) \/ (Visible(ans, hist, t, q) /\ Answered(ans, hist, t, q))

KnownValue(ans, hist, t, q) ==
    IF Imputed(ans, hist, t, q) THEN None
    ELSE get_current_answer(Hist(ans, hist, t, q)).stored_value

CanAnswerNow(ans, hist, t, q) == Visible(ans, hist, t, q) /\ ~Answered(ans, hist, t, q)

can_answer(ts, ans, hist, t) ==
    SelectSeq(DefinitionOrder(ts[t].module), LAMBDA q : CanAnswerNow(ans, hist, t, q))

\* ------------------------------------------------ next_question, POST part
Methods == {"clear", "skip", "save", "bogus"}

\* the ids a request may name: every task, and one id that is no task
TaskIds(ts) == 1..(Len(ts) + 1)

\* lists of task ids: one id, or two tasks (the order of a list does not
\* matter to the view, so a pair is tried in one order)
RefLists(ts) ==
    {<<a>> : a \in TaskIds(ts)}
    \cup {<<x[1], x[2]>> : x \in {y \in (1..Len(ts)) \X (1..Len(ts)) : y[1] <= y[2]}}

\* The form data a client may send for question q.
PostInputs(ts, q) ==
    {[method |-> m, value |-> None, refs |-> <<>>] : m \in Methods \ {"save"}}
    \cup
    (CASE QType(q) = "choice" ->
            {[method |-> "save", value |-> v, refs |-> <<>>] : v \in {"yes", "no", ""}}
       [] QType(q) = "text" ->
            {[method |-> "save", value |-> v, refs |-> <<>>] : v \in {"x", ""}}
       [] QType(q) \in {"module", "module-set"} ->
            {[method |-> "save", value |-> v, refs |-> <<>>] : v \in {"__new", ""}}
            \cup {[method |-> "save", value |-> "ids", refs |-> r] : r \in RefLists(ts)}
       [] QType(q) = "file" ->
            {[method |-> "save", value |-> v, refs |-> <<>>] : v \in {"f1", None}})

\* question_input_parser.parse and validator.validate accept the value
ValidValue(q, value) ==
    CASE QType(q) = "choice" -> value \in {"yes", "no"}
      [] QType(q) = "text" -> value # ""
      [] QType(q) \in {"module", "module-set"} -> value \in {"__new", "ids"}
      [] QType(q) = "file" -> value # None

\* a skip that clears
ClearedOf_SkipClears(method) == method \in {"clear", "skip"}

\* lines 50-58, 95: clear alone returns the question to the unanswered state
ClearedOf(method) == method = "clear"

\* the value of the request lost
ParsedValue_Lost(method, value) == None

\* lines 52, 57, 82-83: the parsed value
ParsedValue(method, value) == IF method = "save" THEN value ELSE None

\* the read privilege left unchecked
TaskIsValidAnswer_NoReadCheck(ts, q, u, r) == ts[r].module = answer_type_module(q)

\* the module left unchecked
TaskIsValidAnswer_NoModuleCheck(ts, q, u, r) == has_read_priv(ts, r, u)

\* lines 133-135: a selected task is of the right module and readable
TaskIsValidAnswer(ts, q, u, r) ==
    /\ ts[r].module = answer_type_module(q)
    /\ has_read_priv(ts, r, u)
    /\ r \notin deleted

\* the count left unchecked
RefCountOK_Any(q, refs) == TRUE

\* lines 136-137: a "module" question takes exactly one task
RefCountOK(q, refs) == QType(q) = "module" => Len(refs) = 1

\* Task.create (lines 111-116); parent_task_answer does not go into the Task
TaskCreate(ts, u, t, q) ==
    Append(ts, [module |-> answer_type_module(q), editor |-> u,
                project |-> ts[t].project])

\* lines 106-137: the tasks that answer the question; ok is FALSE when the
\* view raises (Task.DoesNotExist, ValueError)
ResolveTasks(ts, u, t, q, v, refs) ==
    IF v = "__new"
    THEN [ok |-> TRUE, tasks |-> TaskCreate(ts, u, t, q), by |-> {Len(ts) + 1}]
    ELSE IF v = None
    THEN [ok |-> TRUE, tasks |-> ts, by |-> {}]
    ELSE IF \E i \in 1..Len(refs) : ~TaskExists(ts, refs[i])
    THEN [ok |-> FALSE, tasks |-> ts, by |-> {}]
    ELSE IF \E i \in 1..Len(refs) : ~TaskIsValidAnswer(ts, q, u, refs[i])
    THEN [ok |-> FALSE, tasks |-> ts, by |-> {}]
    ELSE IF ~RefCountOK(q, refs)
    THEN [ok |-> FALSE, tasks |-> ts, by |-> {}]
    ELSE [ok |-> TRUE, tasks |-> ts, by |-> Range(refs)]

\* an unchanged answer classified like a changed one
EventType_NoKeep(method, cleared, changed, had_answer) ==
    IF cleared THEN "clear"
    ELSE IF method = "skip" THEN "skip"
    ELSE IF had_answer THEN "change" ELSE "answer"

\* "change" and "answer" the wrong way round
EventType_Swapped(method, cleared, changed, had_answer) ==
    IF cleared THEN "clear"
    ELSE IF changed
         THEN (IF method = "skip" THEN "skip"
               ELSE IF had_answer THEN "answer" ELSE "change")
         ELSE "keep"

\* lines 153-169: the instrumentation event type
EventType(method, cleared, changed, had_answer) ==
    IF cleared THEN "clear"
    ELSE IF changed
         THEN (IF method = "skip" THEN "skip"
               ELSE IF had_answer THEN "change" ELSE "answer")
         ELSE "keep"

\* a clear that deletes the history
StoreAnswer_ClearDeletes(h, q, cleared, v, by) ==
    IF cleared THEN <<>>
    ELSE IF QType(q) \in {"module", "module-set"} THEN save_answer(h, None, by, None)
    ELSE IF QType(q) = "file" THEN save_answer(h, None, {}, v)
    ELSE save_answer(h, v, {}, None)

\* a save that overwrites the history
StoreAnswer_Overwrites(h, q, cleared, v, by) ==
    IF cleared THEN clear_answer(h)
    ELSE IF QType(q) \in {"module", "module-set"} THEN <<NewEntry(None, by, None)>>
    ELSE IF QType(q) = "file" THEN <<NewEntry(None, {}, v)>>
    ELSE <<NewEntry(v, {}, None)>>

\* a save that keeps the answer that was stored first
StoreAnswer_FirstWins(h, q, cleared, v, by) ==
    IF cleared THEN clear_answer(h)
    ELSE IF has_answer(h) THEN h
    ELSE IF QType(q) \in {"module", "module-set"} THEN save_answer(h, None, by, None)
    ELSE IF QType(q) = "file" THEN save_answer(h, None, {}, v)
    ELSE save_answer(h, v, {}, None)

\* lines 138-160: what is stored, once the answering tasks are known
StoreAnswer(h, q, cleared, v, by) ==
    IF cleared THEN clear_answer(h)
    ELSE IF QType(q) \in {"module", "module-set"} THEN save_answer(h, None, by, None)
    ELSE IF QType(q) = "file" THEN save_answer(h, None, {}, v)
    ELSE save_answer(h, v, {}, None)

Unchanged(status) ==
    [status |-> status, tasks |-> tasks, answers |-> answers,
     history |-> history, event |-> None, by |-> {}]

\* a save without a file that goes on to the parser
PostRefusal_NoEmptyFileExit(u, t, q, method, value) ==
    IF ~TaskExists(tasks, t) THEN "404"
    ELSE IF ConfigurationError(tasks[t].module) THEN "configuration-error"
    ELSE IF ~has_write_priv(tasks, t, u) \/ t \in deleted THEN "forbidden"
    ELSE IF QModule(q) # tasks[t].module THEN "exception"
    ELSE IF method \notin {"clear", "skip", "save"} THEN "exception"
    ELSE IF method = "save" /\ ~ValidValue(q, value) THEN "error"
    ELSE None

\* the write privilege left unchecked
PostRefusal_NoWriteCheck(u, t, q, method, value) ==
    IF ~TaskExists(tasks, t) THEN "404"
    ELSE IF ConfigurationError(tasks[t].module) THEN "configuration-error"
    ELSE IF QModule(q) # tasks[t].module THEN "exception"
    ELSE IF method \notin {"clear", "skip", "save"} THEN "exception"
    ELSE IF method = "save" /\ QType(q) = "file" /\ value = None THEN "ok"
    ELSE IF method = "save" /\ ~ValidValue(q, value) THEN "error"
    ELSE None

\* lines 31-98: the exits of the view before its first write; None when the
\* request goes on to line 100
PostRefusal(u, t, q, method, value) ==
    IF ~TaskExists(tasks, t) THEN "404"
    ELSE IF ConfigurationError(tasks[t].module) THEN "configuration-error"
    ELSE IF ~has_write_priv(tasks, t, u) \/ t \in deleted THEN "forbidden"
    ELSE IF QModule(q) # tasks[t].module THEN "exception"
    ELSE IF method \notin {"clear", "skip", "save"} THEN "exception"
    ELSE IF method = "save" /\ QType(q) = "file" /\ value = None THEN "ok"
    ELSE IF method = "save" /\ ~ValidValue(q, value) THEN "error"
    ELSE None

\* lines 100-104: TaskAnswer.objects.get_or_create
GetOrCreate(ans, hist, t, q) ==
    [answers |-> ans \cup {<<t, q>>},
     history |-> [x \in ans \cup {<<t, q>>} |-> IF x \in ans THEN hist[x] ELSE <<>>]]

\* lines 106-137, for the question types that are answered by tasks
AnsweringTasks(ts, u, t, q, method, value, refs) ==
    IF QType(q) \in {"module", "module-set"} /\ ~ClearedOf(method)
    THEN ResolveTasks(ts, u, t, q, ParsedValue(method, value), refs)
    ELSE [ok |-> TRUE, tasks |-> ts, by |-> {}]

\* The whole POST branch of next_question (lines 29-197), its statements
\* run one after the other with no other request in between.
PostOutcome(u, t, q, method, value, refs) ==
    IF PostRefusal(u, t, q, method, value) # None
    THEN Unchanged(PostRefusal(u, t, q, method, value))
    ELSE
    LET cleared == ClearedOf(method)
        v == ParsedValue(method, value)
        \* line 101: get_or_create commits at once
        goc == GetOrCreate(answers, history, t, q)
        rt == AnsweringTasks(tasks, u, t, q, method, value, refs)
        h == Hist(answers, history, t, q)
        h1 == StoreAnswer(h, q, cleared, v, rt.by)
    IN  IF ~rt.ok
        THEN [status |-> "exception", tasks |-> tasks, answers |-> goc.answers,
              history |-> goc.history, event |-> None, by |-> {}]
        ELSE [status |-> "ok", tasks |-> rt.tasks, answers |-> goc.answers,
              history |-> [goc.history EXCEPT ![<<t, q>>] = h1],
              event |-> EventType(method, cleared, h1 # h, has_answer(h)),
              by |-> rt.by]

RECURSIVE SumLen(_, _)
SumLen(hist, pairs) ==
    IF pairs = {} THEN 0
    ELSE LET x == CHOOSE y \in pairs : TRUE
         IN  Len(hist[x]) + SumLen(hist, pairs \ {x})

\* the rows of the database
Rows(ts, ans, hist) == Len(ts) + Cardinality(ans) + SumLen(hist, ans)

\* The response.  An accepted POST is kept with what it asked for: the
\* method, the task, the question, the value and the answering tasks.
\* A page is kept with the organization it was asked in, the candidate
\* answer tasks, the questions the finished page lists and the projects the
\* homepage lists; when the request named no question, also with the task
\* and the question the view chose itself.
Response(status, event, method, t, q, value, by, obj) ==
    [status |-> status, event |-> event, method |-> method, task |-> t,
     question |-> q, value |-> value, refs |-> by, answer_obj |-> obj,
     org |-> None, next |-> None, listed |-> {}, all_questions |-> {},
     projects |-> {}]

Refused(status) == Response(status, None, None, 0, None, None, {}, FALSE)

Post(u, o, t, q, in) ==
    \E r \in {IF TaskInOrg(tasks, t, o)
               THEN PostOutcome(u, t, q, in.method, in.value, in.refs)
               ELSE Unchanged("404")} :
    /\ Rows(r.tasks, r.answers, r.history) <= MaxRows
    /\ tasks' = r.tasks
    /\ answers' = r.answers
    /\ history' = r.history
    /\ resp' = IF r.status = "ok"
               THEN Response("ok", r.event, in.method, t, q, in.value, r.by, FALSE)
               ELSE Refused(r.status)
    /\ UNCHANGED <<inflight, discussions, site>>

\* ------------------------------------------------- next_question, GET part
\* a cleared answer shown as an answer
ShownAnswer_IgnoresCleared(h) == Len(h) > 0

\* lines 306-312: a cleared answer is shown as no answer
ShownAnswer(h) ==
    IF Len(h) > 0 /\ ~get_current_answer(h).cleared THEN TRUE ELSE FALSE

\* Task.get_all_tasks_readable_by(user, organization); the homepage calls
\* it with the user alone (o = None)
get_all_tasks_readable_by(ts, u, o) ==
    {k \in 1..Len(ts) : /\ has_read_priv(ts, k, u)
                        /\ k \notin deleted
                        /\ o # None => ProjectOrg(ts[k].project) = o}

\* lines 314-323: the tasks offered as an answer to q
AnswerTasks(ts, u, o, q) ==
    IF answer_type_module(q) = None THEN {}
    ELSE {k \in get_all_tasks_readable_by(ts, u, o) :
                ts[k].module = answer_type_module(q)}

\* no question ever chosen
NextQuestion_None(ts, ans, hist, t) == None

\* a question skipped when it was the one shown last
NextQuestion_Rotating(ts, ans, hist, t) ==
    IF Len(can_answer(ts, ans, hist, t)) = 0 THEN None
    ELSE IF Len(can_answer(ts, ans, hist, t)) > 1
            /\ resp.next = can_answer(ts, ans, hist, t)[1]
    THEN can_answer(ts, ans, hist, t)[2]
    ELSE can_answer(ts, ans, hist, t)[1]

\* the last question shown instead of the first
NextQuestion_Last(ts, ans, hist, t) ==
    IF Len(can_answer(ts, ans, hist, t)) = 0 THEN None
    ELSE can_answer(ts, ans, hist, t)[Len(can_answer(ts, ans, hist, t))]

\* lines 204-209: the next unanswered question, None when there is none
NextQuestion(ts, ans, hist, t) ==
    IF Len(can_answer(ts, ans, hist, t)) = 0 THEN None
    ELSE can_answer(ts, ans, hist, t)[1]

\* imputed questions listed too
AllQuestions_WithImputed(ts, ans, hist, t) ==
    {[question |-> q, skipped |-> KnownValue(ans, hist, t, q) = None] :
        q \in {k \in Range(DefinitionOrder(ts[t].module)) : Resolved(ans, hist, t, k)}}

\* lines 291-299: the questions answered by the user, imputed ones left out
AllQuestions(ts, ans, hist, t) ==
    {[question |-> q, skipped |-> KnownValue(ans, hist, t, q) = None] :
        q \in {k \in Range(DefinitionOrder(ts[t].module)) :
                    Resolved(ans, hist, t, k) /\ ~Imputed(ans, hist, t, k)}}

\* the variables of the module's output documents that no answer covers,
\* given or imputed: those that are not keys of the module's questions
UncoveredVars(m) == OutputVars(m) \ Range(DefinitionOrder(m))

\* Task.render_output_documents(answers, hard_fail): the call raises
RenderFails(m, hard_fail) == hard_fail /\ UncoveredVars(m) # {}

GetPage(status, event, o, t, next, obj, listed, all) ==
    /\ resp' = [Response(status, event, "GET", t, None, None, {}, obj)
                    EXCEPT !.org = o, !.next = next, !.listed = listed,
                           !.all_questions = all]
    /\ UNCHANGED <<tasks, answers, history, inflight, discussions, site>>

GetRefused(status) ==
    /\ resp' = Refused(status)
    /\ UNCHANGED <<tasks, answers, history, inflight, discussions, site>>

\* a deleted task served like any other
IsDeleted_Never(t) == FALSE

\* line 236: task.deleted_at is set
IsDeleted(t) == t \in deleted

\* lines 199-384; qparam is the "q" parameter, or None to ask for the next
\* question.  No guest is invited to a discussion here, so read_priv
\* (lines 219-232) is has_read_priv.
Get(u, o, t, qparam) ==
    IF ~TaskInOrg(tasks, t, o) THEN GetRefused("404")
    ELSE IF ConfigurationError(tasks[t].module) THEN GetRefused("configuration-error")
    ELSE IF qparam # None /\ QModule(qparam) # tasks[t].module
    THEN GetRefused("exception")
    ELSE
    \E q \in {IF qparam # None THEN qparam
               ELSE NextQuestion(tasks, answers, history, t)} :
        IF ~has_read_priv(tasks, t, u) THEN GetRefused("forbidden")
        ELSE IF IsDeleted(t) THEN GetRefused("deleted")
        ELSE IF q = None
        THEN IF RenderFails(tasks[t].module, TRUE)
             THEN GetRefused("render-error")
             ELSE GetPage("finished", "task-done", o, t, None, FALSE, {},
                          AllQuestions(tasks, answers, history, t))
        ELSE GetPage("question", "task-question-show", o,
                     IF qparam = None THEN t ELSE 0,
                     IF qparam = None THEN q ELSE None,
                     ShownAnswer(Hist(answers, history, t, q)),
                     AnswerTasks(tasks, u, o, q), {})

\* ------------------------------------------------------------ behaviours
NoResp == Refused(None)

\* the browser sessions whose requests may overlap
Sessions == {1, 2}

Idle == [pc |-> "idle", user |-> None, task |-> 0, question |-> None,
         method |-> None, value |-> None, refs |-> <<>>, by |-> {}]

InitTasks == << [module |-> "M1", editor |-> "alice", project |-> "P1"],
                [module |-> "M2", editor |-> "carol", project |-> "P2"] >>

InitWith(ts) ==
    /\ tasks = ts
    /\ answers = {}
    /\ history = [x \in {} |-> <<>>]
    /\ resp = NoResp
    /\ inflight = [s \in Sessions |-> Idle]
    /\ discussions = {}
    /\ deleted = {}
    /\ invitations = <<>>
    /\ memberships = <<>>
    /\ events = EmptyBag

Init == InitWith(InitTasks)

ModuleQuestions(m) == {q \in Questions : QModule(q) = m}

\* a question that the module does not have, when there is one
ForeignQuestions(m) ==
    IF ModuleQuestions(m) = Questions THEN {}
    ELSE {CHOOSE q \in Questions : QModule(q) # m}

\* The requests tried on task t by user u: every question of the task's
\* module with every form data, and one request for a question that is not
\* of the module.  A request the view refuses before it reads the form
\* (no such task, no write privilege) is tried with one form only.
PostRequests(u, o, t) ==
    IF ~TaskInOrg(tasks, t, o) \/ ~has_write_priv(tasks, t, u)
    THEN {[q |-> "qa", in |-> [method |-> "skip", value |-> None, refs |-> <<>>]]}
    ELSE UNION {{[q |-> q, in |-> in] : in \in PostInputs(tasks, q)} :
                    q \in ModuleQuestions(tasks[t].module)}
         \cup {[q |-> q, in |-> [method |-> "skip", value |-> None, refs |-> <<>>]] :
                    q \in ForeignQuestions(tasks[t].module)}

GetRequests(o, t) ==
    IF ~TaskInOrg(tasks, t, o) THEN {None}
    ELSE ModuleQuestions(tasks[t].module) \cup {None}
            \cup ForeignQuestions(tasks[t].module)

PostStep == \E u \in Users, o \in Orgs, t \in TaskIds(tasks) :
                \E rq \in PostRequests(u, o, t) : Post(u, o, t, rq.q, rq.in)

GetStep == \E u \in Users, o \in Orgs, t \in TaskIds(tasks) :
                \E qparam \in GetRequests(o, t) : Get(u, o, t, qparam)

Next == PostStep \/ GetStep

Spec == Init /\ [][Next]_vars

\* The same requests on one task of module M3 (questions A and B), edited
\* by alice.
InitTasksAB == << [module |-> "M3", editor |-> "alice", project |-> "P1"] >>

InitAB == InitWith(InitTasksAB)

SpecAB == InitAB /\ [][Next]_vars

\* ------------------------------------------- requests that run concurrently
\* next_question opens no transaction, so each of its writes is committed
\* when it is made: get_or_create (line 101), Task.create (line 111),
\* save_answer or clear_answer (lines 155, 160).  Another request may run
\* between two of them.

\* lines 29-104: the view up to its first commit, for a request of
\* session s
BeginPost(s, u, o, t, q, in) ==
    /\ inflight[s] = Idle
    /\ \E r \in {PostOutcome(u, t, q, in.method, in.value, in.refs)} :
            Rows(r.tasks, r.answers, r.history) <= MaxConcRows
    /\ IF ~TaskInOrg(tasks, t, o) \/ PostRefusal(u, t, q, in.method, in.value) # None
       THEN /\ resp' = Refused(IF ~TaskInOrg(tasks, t, o) THEN "404"
                                ELSE PostRefusal(u, t, q, in.method, in.value))
            /\ UNCHANGED <<tasks, answers, history, inflight, discussions, site>>
       ELSE /\ answers' = GetOrCreate(answers, history, t, q).answers
            /\ history' = GetOrCreate(answers, history, t, q).history
            /\ inflight' = [inflight EXCEPT ![s] =
                                [pc |-> "tasks", user |-> u, task |-> t, question |-> q,
                                 method |-> in.method, value |-> in.value,
                                 refs |-> in.refs, by |-> {}]]
            /\ UNCHANGED <<tasks, resp, discussions, site>>

\* lines 106-150: the answering tasks; Task.create commits
TasksPost(s) ==
    /\ inflight[s].pc = "tasks"
    /\ \E fl \in {inflight[s]} :
        \E rt \in {AnsweringTasks(tasks, fl.user, fl.task, fl.question,
                                   fl.method, fl.value, fl.refs)} :
           IF rt.ok
           THEN /\ tasks' = rt.tasks
                /\ inflight' = [inflight EXCEPT ![s].pc = "store", ![s].by = rt.by]
                /\ UNCHANGED <<answers, history, resp, discussions, site>>
           ELSE /\ resp' = Refused("exception")
                /\ inflight' = [inflight EXCEPT ![s] = Idle]
                /\ UNCHANGED <<tasks, answers, history, discussions, site>>

\* lines 152-197: the answer is stored and the response is sent
StorePost(s) ==
    /\ inflight[s].pc = "store"
    /\ \E fl \in {inflight[s]} :
        \E h \in {Hist(answers, history, fl.task, fl.question)} :
        \E h1 \in {StoreAnswer(h, fl.question, ClearedOf(fl.method),
                                ParsedValue(fl.method, fl.value), fl.by)} :
           /\ history' = [history EXCEPT ![<<fl.task, fl.question>>] = h1]
           /\ resp' = Response("ok",
                               EventType(fl.method, ClearedOf(fl.method),
                                         h1 # h, has_answer(h)),
                               fl.method, fl.task, fl.question, fl.value, fl.by, FALSE)
    /\ inflight' = [inflight EXCEPT ![s] = Idle]
    /\ UNCHANGED <<tasks, answers, discussions, site>>

BeginStep(s) == \E u \in Users, o \in Orgs, t \in TaskIds(tasks) :
                \E rq \in PostRequests(u, o, t) : BeginPost(s, u, o, t, rq.q, rq.in)

\* one POST at a time, and the pages served between its commits
NextConc == BeginStep(1) \/ TasksPost(1) \/ StorePost(1) \/ GetStep

SpecConc == Init /\ [][NextConc]_vars

\* a POST of session s by a user who may write the task, on the task's
\* own site
RaceStep(s) == \E u \in Users, t \in DOMAIN tasks :
                 /\ has_write_priv(tasks, t, u)
                 /\ Rows(tasks, answers, history) < MaxRaceRows
                 /\ \E rq \in PostRequests(u, ProjectOrg(tasks[t].project), t) :
                        BeginPost(s, u, ProjectOrg(tasks[t].project), t, rq.q, rq.in)

\* two POSTs at a time, on one task of module M3
NextRace ==
    \/ \E s \in Sessions : RaceStep(s)
    \/ \E s \in Sessions : TasksPost(s)
    \/ \E s \in Sessions : StorePost(s)

SpecRace == InitAB /\ [][NextRace]_vars

\* ------------------------------------ start_a_discussion and the homepage
\* start_a_discussion (guidedmodules/views.py, lines 459-489).  The task is
\* looked up by id alone and the question among all ModuleQuestions.
StartDiscussion(u, o, t, q) ==
    IF ~TaskExists(tasks, t)
    THEN /\ resp' = Refused("404")
         /\ UNCHANGED <<tasks, answers, history, inflight, discussions, site>>
    ELSE IF /\ <<t, q>> \notin answers \/ <<o, t, q>> \notin discussions
            /\ ~has_read_priv(tasks, t, u)
    THEN /\ resp' = Refused("error")
         /\ UNCHANGED <<tasks, answers, history, inflight, discussions, site>>
    ELSE /\ answers' = GetOrCreate(answers, history, t, q).answers
         /\ history' = GetOrCreate(answers, history, t, q).history
         /\ discussions' = discussions \cup {<<o, t, q>>}
         /\ resp' = [Response("discussion", None, "POST", 0, None, None, {}, FALSE)
                        EXCEPT !.org = o]
         /\ UNCHANGED <<tasks, inflight, site>>

\* siteapp/views.py, lines 29-45: the projects the homepage lists; no
\* discussion has a guest here
HomeProjects(ts, u) ==
    {p \in Projects : u \in ProjectMembers(p)}
    \cup {ts[k].project : k \in get_all_tasks_readable_by(ts, u, None)}

\* homepage (siteapp/views.py, lines 15-54), for a user who is logged in and
\* has filled out the account settings
Homepage(u, o) ==
    /\ resp' = [Response("home", None, "GET", 0, None, None, {}, FALSE)
                    EXCEPT !.org = o, !.projects = HomeProjects(tasks, u)]
    /\ UNCHANGED <<tasks, answers, history, inflight, discussions, site>>

\* the questions a discussion is asked for: one of M1 and one of M3
DiscussionQuestions == {"qa", "A"}

DiscussionStep == \E u \in Users, o \in Orgs, t \in TaskIds(tasks) :
                    \E q \in DiscussionQuestions : StartDiscussion(u, o, t, q)

HomeStep == \E u \in Users, o \in Orgs : Homepage(u, o)

ViewRowsOK ==
    Rows(tasks', answers', history') + Cardinality(discussions') <= MaxViewRows

NextViews ==
    \/ PostStep /\ ViewRowsOK
    \/ GetStep
    \/ DiscussionStep /\ ViewRowsOK
    \/ HomeStep

SpecViews == Init /\ [][NextViews]_vars

\* --------------------------------------- requests without write privilege
\* every form of POST, sent by a user who may not write the task
PrivStep == \E u \in Users, t \in DOMAIN tasks :
                /\ ~has_write_priv(tasks, t, u)
                /\ \E q \in ModuleQuestions(tasks[t].module) :
                   \E in \in PostInputs(tasks, q) :
                        Post(u, ProjectOrg(tasks[t].project), t, q, in)

NextPriv ==
    \/ PostStep /\ ViewRowsOK
    \/ PrivStep

SpecPriv == Init /\ [][NextPriv]_vars

\* ------------------------------------------------------ change_task_state
TaskStates == {"delete", "undelete", "bogus"}

\* an undelete that leaves deleted_at set
DeletedAfter_UndeleteKeeps(del, t, state) == del \cup {t}

\* lines 446-449: deleted_at is set by "delete" and reset by "undelete"
DeletedAfter(del, t, state) ==
    IF state = "delete" THEN del \cup {t} ELSE del \ {t}

\* the response of change_task_state
StateResponse(status, t, state) ==
    Response(status, None, state, t, None, None, {}, FALSE)

\* the methods of a request
HttpMethods == {"GET", "POST"}

\* a change_task_state that lets every user of the organization in
StateRefusal_NoWriteCheck(method, u, o, t, state) ==
    IF method # "POST" THEN "405"
    ELSE IF ~TaskInOrg(tasks, t, o) THEN "404"
    ELSE IF state \notin {"delete", "undelete"} THEN "forbidden"
    ELSE None

\* lines 439-451: the status a request is refused with, or None; the write
\* privilege is checked before the state is looked at, both give Forbidden
StateRefusal(method, u, o, t, state) ==
    IF method # "POST" THEN "405"
    ELSE IF ~TaskInOrg(tasks, t, o) THEN "404"
    ELSE IF ~has_write_priv(tasks, t, u) THEN "forbidden"
    ELSE IF state \notin {"delete", "undelete"} THEN "forbidden"
    ELSE None

\* lines 438-456
ChangeTaskStateRequest(method, u, o, t, state) ==
    /\ IF StateRefusal(method, u, o, t, state) # None
       THEN /\ resp' = StateResponse(StateRefusal(method, u, o, t, state), t, state)
            /\ UNCHANGED deleted
       ELSE /\ deleted' = DeletedAfter(deleted, t, state)
            /\ resp' = StateResponse("ok", t, state)
    /\ UNCHANGED <<tasks, answers, history, inflight, discussions,
                   invitations, memberships, events>>

\* lines 442-456: the request is a POST
ChangeTaskState(u, o, t, state) == ChangeTaskStateRequest("POST", u, o, t, state)

StateStep == \E method \in HttpMethods, u \in Users, o \in Orgs :
             \E t \in TaskIds(tasks), state \in TaskStates :
                ChangeTaskStateRequest(method, u, o, t, state)

\* answers are given, pages are served and tasks are deleted and undeleted
NextState ==
    \/ PostStep /\ ViewRowsOK
    \/ GetStep
    \/ StateStep

SpecState == Init /\ [][NextState]_vars

\* the same with fewer rows, for the pages of deleted tasks
NextDeleted ==
    \/ PostStep /\ Rows(tasks', answers', history') <= MaxDeletedRows
    \/ GetStep
    \/ StateStep

SpecDeleted == Init /\ [][NextDeleted]_vars

\* ------------------------------------------------------- the project page
\* Project.root_task: the first task made in the project
RootTask(ts, p) ==
    CHOOSE k \in 1..Len(ts) :
        ts[k].project = p /\ \A j \in 1..(k - 1) : ts[j].project # p

\* Project.has_read_priv: the members of the project and the editors of
\* its tasks
project_has_read_priv(ts, p, u) ==
    \/ u \in ProjectMembers(p)
    \/ \E k \in 1..Len(ts) : ts[k].project = p /\ ts[k].editor = u

\* siteapp/views.py, project: the page of project p, with the output
\* documents of its root task rendered with hard_fail=False
ProjectPage(u, p) ==
    /\ resp' = IF ~project_has_read_priv(tasks, p, u)
               THEN Response("forbidden", None, "GET", 0, None, None, {}, FALSE)
               ELSE IF RenderFails(tasks[RootTask(tasks, p)].module, FALSE)
               THEN Response("render-error", None, "GET", 0, None, None, {}, FALSE)
               ELSE [Response("project", None, "GET", RootTask(tasks, p),
                              None, None, {}, FALSE) EXCEPT !.projects = {p}]
    /\ UNCHANGED <<tasks, answers, history, inflight, discussions, site>>

ProjectStep == \E u \in Users, p \in Projects : ProjectPage(u, p)

\* The requests of Next on one task of module M6 (question F), edited by
\* alice.
InitTasksFile == << [module |-> "M6", editor |-> "alice", project |-> "P1"] >>

InitFile == InitWith(InitTasksFile)

SpecFile == InitFile /\ [][Next]_vars

\* Tasks of the modules whose definition has a bug, and of one that has
\* none: the root tasks of P1 and P2, and a task of M5
InitTasksDefs == << [module |-> "M4", editor |-> "alice", project |-> "P1"],
                    [module |-> "M3", editor |-> "alice", project |-> "P2"],
                    [module |-> "M5", editor |-> "alice", project |-> "P2"] >>

InitDefs == InitWith(InitTasksDefs)

NextDefs ==
    \/ PostStep /\ Rows(tasks', answers', history') <= MaxDefsRows
    \/ GetStep
    \/ ProjectStep

SpecDefs == InitDefs /\ [][NextDefs]_vars

\* ------------------------------------------------------------ invitations
\* the response of the invitation views, for the invitation with id i
InvResponse(status, method, i) ==
    Response(status, None, method, i, None, None, {}, FALSE)

InvFrame ==
    UNCHANGED <<tasks, answers, history, inflight, discussions, deleted, events>>

\* the request names no task
NoTask == 0

\* line 212: the project the request names, if the user is a member of it
FromProject(u, p) == IF u \in ProjectMembers(p) THEN p ELSE None

\* a transfer that any user may ask for
TransferRefusal_NoEditorCheck(u, from_project, t) ==
    IF ~TaskExists(tasks, t) THEN "error"
    ELSE IF from_project # None /\ tasks[t].project # from_project THEN "forbidden"
    ELSE None

\* lines 229-234: the status a transfer of the editorship of task t is
\* refused with, or None.  The Task is looked up by id alone; a Task that
\* does not exist and the raise at line 232 end in the handler at 284-287.
TransferRefusal(u, from_project, t) ==
    IF ~TaskExists(tasks, t) THEN "error"
    ELSE IF tasks[t].editor # u THEN "error"
    ELSE IF from_project # None /\ tasks[t].project # from_project THEN "forbidden"
    ELSE None

\* lines 258-278: the Invitation that is created and sent
NewInvitation(u, from_project, into_project, target, what, to) ==
    [from_user |-> u, from_project |-> from_project,
     into_project |-> into_project, target |-> target, what |-> what,
     to_user |-> to, sent |-> TRUE,
     accepted |-> FALSE, accepted_user |-> None,
     revoked |-> FALSE, expired |-> FALSE, accept_runs |-> 0]

\* lines 200-287, for an invitation sent to a user account ("to" is the
\* user) or to an e-mail address that has no account ("to" is None).
\* into_task_editorship is the id of the Task whose editorship is
\* transferred, or NoTask for an invitation to join the team of project p.
\* For the team, a user who is no member of the project has no from_project
\* and so no target: no Invitation is made.
SendInvitation(u, p, to, add_to_team, into_task_editorship) ==
    /\ Len(invitations) < MaxInvitations
    /\ IF into_task_editorship # NoTask
       THEN IF TransferRefusal(u, FromProject(u, p), into_task_editorship) # None
            THEN /\ resp' = InvResponse(
                        TransferRefusal(u, FromProject(u, p), into_task_editorship),
                        "send", 0)
                 /\ UNCHANGED invitations
            ELSE /\ invitations' = Append(invitations,
                        NewInvitation(u, tasks[into_task_editorship].project,
                                      FromProject(u, p) # None /\ add_to_team,
                                      into_task_editorship, "editor", to))
                 /\ resp' = InvResponse("ok", "send", Len(invitations) + 1)
       ELSE IF FromProject(u, p) # None
       THEN /\ invitations' = Append(invitations,
                    NewInvitation(u, p, add_to_team, p, "join-team", to))
            /\ resp' = InvResponse("ok", "send", Len(invitations) + 1)
       ELSE /\ resp' = InvResponse("error", "send", 0)
            /\ UNCHANGED invitations
    /\ UNCHANGED memberships
    /\ InvFrame

\* lines 290-294
CancelInvitation(u, i) ==
    /\ IF i \in DOMAIN invitations /\ invitations[i].from_user = u
       THEN /\ invitations' = [invitations EXCEPT ![i].revoked = TRUE]
            /\ resp' = InvResponse("ok", "cancel", i)
       ELSE /\ resp' = InvResponse("404", "cancel", i)
            /\ UNCHANGED invitations
    /\ UNCHANGED memberships
    /\ InvFrame

\* Invitation.is_expired: the days in which the invitation may be accepted
\* are over
Expire(i) ==
    /\ i \in DOMAIN invitations
    /\ ~invitations[i].expired
    /\ invitations' = [invitations EXCEPT ![i].expired = TRUE]
    /\ resp' = NoResp
    /\ UNCHANGED memberships
    /\ InvFrame

\* a repeated click that accepts again
AcceptRefusal_NoRepeatCheck(inv) ==
    IF inv.expired THEN "expired" ELSE None

\* lines 305-313: the exits of accept_invitation before the user is logged
\* in; None when the view goes on
AcceptRefusal(inv) ==
    IF inv.accepted THEN "redirect"
    ELSE IF inv.expired THEN "expired"
    ELSE None

\* lines 317-368: the account that accepts, for a request of user u (None:
\* nobody is logged in) with or without the accept-auth flag; None when the
\* request is sent to the login page
AcceptingUser(inv, u, accept_auth) ==
    IF u # None /\ accept_auth THEN u
    ELSE inv.to_user

\* the steps of the transaction at which the view may raise: the creation
\* of the ProjectMembership, the target's accept action, or none
AcceptFailures == {"none", "membership", "target"}

\* lines 373-399, the rows as the statements of the transaction leave them
\* when it ends or raises: the ProjectMembership is created first, then the
\* target's accept action runs, then inv.save() stores the acceptance
AcceptBlock(invs, mships, i, who, fails) ==
    IF fails = "membership" /\ invs[i].into_project
    THEN [ok |-> FALSE, invitations |-> invs, memberships |-> mships]
    ELSE LET m1 == IF invs[i].into_project
                   THEN Append(mships, <<invs[i].from_project, who>>)
                   ELSE mships
         IN
         IF fails = "target"
         THEN [ok |-> FALSE, invitations |-> invs, memberships |-> m1]
         ELSE [ok |-> TRUE,
               invitations |-> [invs EXCEPT ![i].accepted = TRUE,
                                            ![i].accepted_user = who,
                                            ![i].accept_runs = @ + 1],
               memberships |-> m1]

\* a transaction that keeps what was written before it raised
Atomic_NoRollback(before, block) == block

\* line 373, with transaction.atomic(): what was written is kept when the
\* block ends, and undone when it raises
Atomic(before, block) ==
    IF block.ok THEN block
    ELSE [ok |-> FALSE, invitations |-> before.invitations,
          memberships |-> before.memberships]

\* lines 296-399; fails is the step of the transaction that raises
AcceptInvitation(u, i, accept_auth, fails) ==
    /\ IF i \notin DOMAIN invitations
       THEN /\ resp' = InvResponse("404", "accept", i)
            /\ UNCHANGED <<invitations, memberships>>
       ELSE IF AcceptRefusal(invitations[i]) # None
       THEN /\ resp' = InvResponse(AcceptRefusal(invitations[i]), "accept", i)
            /\ UNCHANGED <<invitations, memberships>>
       ELSE IF AcceptingUser(invitations[i], u, accept_auth) = None
       THEN /\ resp' = InvResponse("login", "accept", i)
            /\ UNCHANGED <<invitations, memberships>>
       ELSE \E who \in {AcceptingUser(invitations[i], u, accept_auth)} :
            \E r \in {Atomic([invitations |-> invitations,
                               memberships |-> memberships],
                              AcceptBlock(invitations, memberships, i, who, fails))} :
            /\ invitations' = r.invitations
            /\ memberships' = r.memberships
            /\ resp' = InvResponse(IF r.ok THEN "accepted" ELSE "exception",
                                   "accept", i)
    /\ InvFrame

InvitationIds == 1..(Len(invitations) + 1)

SendStep == \E u \in Users, p \in Projects, to \in {"alice", None},
               add_to_team \in BOOLEAN : SendInvitation(u, p, to, add_to_team, NoTask)

CancelStep == \E u \in Users, i \in InvitationIds : CancelInvitation(u, i)

ExpireStep == \E i \in DOMAIN invitations : Expire(i)

AcceptStep == \E u \in Users \cup {None}, i \in InvitationIds,
                 accept_auth \in BOOLEAN, fails \in AcceptFailures :
                    AcceptInvitation(u, i, accept_auth, fails)

NextInv == SendStep \/ CancelStep \/ ExpireStep \/ AcceptStep

SpecInv == Init /\ [][NextInv]_vars

\* the editorship of a task is transferred: alice edits a task of P1 and is
\* no member of it, bob edits a task of P2 and is a member of both projects
InitTasksTransfer == << [module |-> "M1", editor |-> "alice", project |-> "P1"],
                        [module |-> "M3", editor |-> "bob", project |-> "P2"] >>

InitTransfer == InitWith(InitTasksTransfer)

TransferStep == \E u \in Users, p \in Projects, to \in {"alice", None} :
                \E add_to_team \in BOOLEAN, t \in TaskIds(tasks) :
                    SendInvitation(u, p, to, add_to_team, t)

NextTransfer ==
    \/ PostStep /\ Rows(tasks', answers', history') <= MaxTransferRows
    \/ TransferStep

SpecTransfer == InitTransfer /\ [][NextTransfer]_vars

\* -------------------------------------------------------- instrumentation
Event(u, type, t, q) == <<u, type, t, q>>

\* InstrumentationEvent.objects.filter(...).exists()
EventExists(ev, u, type, t, q) == BagIn(Event(u, type, t, q), ev)

\* InstrumentationEvent.objects.create(...)
EventCreate(ev, u, type, t, q) == ev (+) SetToBag({Event(u, type, t, q)})

\* the request of user u is served the finished page of task t: lines
\* 31-35 and 199-247 go through and there is no next question
FinishedPageFor(u, o, t) ==
    /\ TaskInOrg(tasks, t, o)
    /\ ~ConfigurationError(tasks[t].module)
    /\ NextQuestion(tasks, answers, history, t) = None
    /\ has_read_priv(tasks, t, u)
    /\ t \notin deleted

\* lines 264-269 of a finished-page request of session s: has the user been
\* here before?
DoneBegin(s, u, o, t) ==
    /\ inflight[s] = Idle
    /\ BagCardinality(events) < MaxEvents
    /\ FinishedPageFor(u, o, t)
    /\ inflight' = [inflight EXCEPT ![s] =
            [pc |-> "event", user |-> u, org |-> o, task |-> t,
             i_task_done |-> EventExists(events, u, "task-done", t, None)]]
    /\ UNCHANGED <<tasks, answers, history, resp, discussions, deleted,
                   invitations, memberships, events>>

\* line 279: the type of the event of the finished page
DoneEventType(i_task_done) == IF i_task_done THEN "task-review" ELSE "task-done"

\* lines 277-300: the event is created and the page is rendered
DoneRecord(s) ==
    /\ inflight[s].pc = "event"
    /\ \E fl \in {inflight[s]} :
          /\ events' = EventCreate(events, fl.user,
                                   DoneEventType(fl.i_task_done), fl.task, None)
          /\ resp' = IF RenderFails(tasks[fl.task].module, TRUE)
                     THEN Refused("render-error")
                     ELSE [Response("finished", DoneEventType(fl.i_task_done),
                                    "GET", fl.task, None, None, {}, FALSE)
                              EXCEPT !.org = fl.org,
                                     !.all_questions =
                                        AllQuestions(tasks, answers, history, fl.task)]
    /\ inflight' = [inflight EXCEPT ![s] = Idle]
    /\ UNCHANGED <<tasks, answers, history, discussions, deleted,
                   invitations, memberships>>

\* a first interaction that is recorded every time
InteractionRecorded_Never(ev, u, t, q) == FALSE

\* lines 407-410: an interaction has already been recorded
InteractionRecorded(ev, u, t, q) ==
    EventExists(ev, u, "task-question-interact-first", t, q)

\* the response of instrumentation_record_interaction, with the event that
\* the request recorded
InteractResponse(status, event, t, q) ==
    Response(status, event, "interact", t, q, None, {}, FALSE)

\* lines 387-436 (the request is a POST)
RecordInteraction(u, o, t, q) ==
    /\ IF ~TaskInOrg(tasks, t, o)
       THEN resp' = InteractResponse("404", None, t, q) /\ UNCHANGED events
       ELSE IF ~has_read_priv(tasks, t, u) \/ t \in deleted
                \/ QModule(q) # tasks[t].module
       THEN resp' = InteractResponse("forbidden", None, t, q) /\ UNCHANGED events
       ELSE IF InteractionRecorded(events, u, t, q)
       THEN resp' = InteractResponse("ok", None, t, q) /\ UNCHANGED events
       ELSE /\ BagCardinality(events) < MaxEvents
            /\ events' = EventCreate(events, u, "task-question-interact-first", t, q)
            /\ resp' = InteractResponse("ok", "task-question-interact-first", t, q)
    /\ UNCHANGED <<tasks, answers, history, inflight, discussions, deleted,
                   invitations, memberships>>

DoneBeginStep == \E s \in Sessions, u \in Users, o \in Orgs, t \in DOMAIN tasks :
                    DoneBegin(s, u, o, t)

DoneRecordStep == \E s \in Sessions : DoneRecord(s)

InteractStep == \E u \in Users, o \in Orgs, t \in TaskIds(tasks) :
                    \E q \in GetRequests(o, t) \ {None} : RecordInteraction(u, o, t, q)

\* finished pages are served, two at a time, and first interactions are
\* recorded
NextEvents == DoneBeginStep \/ DoneRecordStep \/ InteractStep

SpecEvents == Init /\ [][NextEvents]_vars

\* ================================================================ claims
\* the request the response resp answers, when it was accepted
OkPost(r, method) == r.status = "ok" /\ r.method = method

\* the answer a save of the accepted request r proposes
Proposed(r) ==
    NewEntry(IF QType(r.question) \in {"module", "module-set"} THEN None ELSE r.value,
             r.refs, None)

NullAnswer == NewEntry(None, {}, None)

\* ---------------------------------------------------------------- C1
\* C1: after an accepted skip of (t, q), whatever its answer was, the
\* current answer of (t, q) is a non-cleared answer with a null value, the
\* question page shows it as answered, and q is not in can_answer(t); and an
\* answer that is "answered with null" stays so, and out of can_answer, over
\* every step that is not an accepted clear or save of that same (t, q).
C1_SkipAnswersWithNull ==
    [][ /\ OkPost(resp', "skip") =>
            LET t == resp'.task
                q == resp'.question
                h == Hist(answers', history', t, q)
            IN  /\ <<t, q>> \in answers'
                /\ get_current_answer(h) = NullAnswer
                /\ ShownAnswer(h)
                /\ ~CanAnswerNow(answers', history', t, q)
        /\ \A x \in answers :
            (/\ get_current_answer(history[x]) = NullAnswer
             /\ ~(resp'.status = "ok" /\ resp'.method \in {"clear", "save"}
                    /\ <<resp'.task, resp'.question>> = x))
            => /\ x \in answers'
               /\ get_current_answer(history'[x]) = NullAnswer
               /\ ~CanAnswerNow(answers', history', x[1], x[2])
      ]_vars

\* a skip was accepted on a question that held the answer "yes"
C1_Witness ==
    /\ OkPost(resp, "skip") /\ resp.event = "skip"
    /\ LET h == Hist(answers, history, resp.task, resp.question)
       IN  /\ Len(h) >= 2
           /\ h[Len(h) - 1].stored_value = "yes"
           /\ h[Len(h)] = NullAnswer

\* ---------------------------------------------------------------- C2
\* C2: after an accepted clear of an answered question (t, q), the question
\* is unanswered (the page shows no answer for it), and q is in
\* can_answer(t) whenever its ask-condition holds.
C2_ClearReturnsToUnanswered ==
    [][ (OkPost(resp', "clear") /\ Answered(answers, history, resp'.task, resp'.question)) =>
            LET t == resp'.task
                q == resp'.question
                h == Hist(answers', history', t, q)
            IN  /\ ~ShownAnswer(h)
                /\ ~has_answer(h)
                /\ Visible(answers', history', t, q) =>
                      q \in Range(can_answer(tasks', answers', history', t))
      ]_vars

\* qb was answered, then cleared, and is asked again
C2_Witness ==
    /\ OkPost(resp, "clear") /\ resp.question = "qb"
    /\ LET h == Hist(answers, history, resp.task, "qb")
       IN  Len(h) >= 2 /\ ~h[Len(h) - 1].cleared /\ h[Len(h)].cleared
    /\ "qb" \in Range(can_answer(tasks, answers, history, resp.task))

\* ---------------------------------------------------------------- C3
\* the accepted save r2 follows the accepted save r1 of the same value to
\* the same (t, q)
SameSaveAgain(r1, r2) ==
    /\ OkPost(r1, "save") /\ OkPost(r2, "save")
    /\ r1.task = r2.task /\ r1.question = r2.question
    /\ r1.value = r2.value
    /\ r1.value = "ids" => r1.refs = r2.refs

SecondSaveIsNoOp ==
    /\ resp'.event = "keep"
    /\ history' = history
    /\ tasks' = tasks

C4_SaveClassification ==
    [][ OkPost(resp', "save") =>
            LET t == resp'.task
                q == resp'.question
                h == Hist(answers, history, t, q)
                h1 == Hist(answers', history', t, q)
                differs == ~has_answer(h) \/ get_current_answer(h) # Proposed(resp')
            IN  /\ differs => h1 = Append(h, Proposed(resp'))
                /\ ~differs => h1 = h
                /\ resp'.event = "answer" <=> (differs /\ ~has_answer(h))
                /\ resp'.event = "change" <=> (differs /\ has_answer(h))
                /\ resp'.event = "keep" <=> ~differs
      ]_vars

\* a save changed an answer that was there
C4_Witness ==
    /\ OkPost(resp, "save") /\ resp.event = "change"
    /\ Len(Hist(answers, history, resp.task, resp.question)) >= 2

\* ---------------------------------------------------------------- C5
\* the accepted save r2 follows the accepted save r1 to the same (t, q),
\* and proposes another answer
OtherSaveAfter(r1, r2) ==
    /\ OkPost(r1, "save") /\ OkPost(r2, "save")
    /\ r1.task = r2.task /\ r1.question = r2.question
    /\ Proposed(r1) # Proposed(r2)

\* the two saves left two history entries, in their order
TwoEntriesInOrder ==
    LET h == Hist(answers, history, resp'.task, resp'.question)
        h1 == Hist(answers', history', resp'.task, resp'.question)
    IN  /\ resp.event \in {"answer", "change"}
        /\ resp'.event \in {"answer", "change"}
        /\ h1 = Append(h, Proposed(resp'))
        /\ h[Len(h)] = Proposed(resp)

\* C5 as stated: two saves of different values, one after the other, leave
\* exactly two history entries, in order, and the later value is current.
C5_AsStated ==
    [][ OtherSaveAfter(resp, resp') =>
            /\ TwoEntriesInOrder
            /\ get_current_answer(Hist(answers', history', resp'.task, resp'.question))
                    = Proposed(resp')
      ]_vars

\* C5, amended: they do when the first save changed the answer (its value
\* differed from the answer current before it); the later value is current
\* in every case.
C5_TwoSavesTwoEntries ==
    [][ OtherSaveAfter(resp, resp') =>
            /\ resp.event # "keep" => TwoEntriesInOrder
            /\ get_current_answer(Hist(answers', history', resp'.task, resp'.question))
                    = Proposed(resp')
      ]_vars

\* "yes" then "no" saved to a fresh question: two entries, "no" current
C5_Witness ==
    /\ OkPost(resp, "save") /\ resp.event = "change" /\ resp.value = "no"
    /\ LET h == Hist(answers, history, resp.task, resp.question)
       IN  /\ Len(h) = 2
           /\ h[1] = NewEntry("yes", {}, None)
           /\ h[2] = NewEntry("no", {}, None)

\* ---------------------------------------------------------------- C6
\* task b answers a question of task a
AnsweredBy(a, b) ==
    \E x \in answers :
        /\ x[1] = a
        /\ has_answer(history[x])
        /\ b \in get_current_answer(history[x]).answered_by_task

RECURSIVE ReachableFrom(_, _)
ReachableFrom(seen, n) ==
    IF n = 0 THEN seen
    ELSE ReachableFrom(seen \cup {b \in 1..Len(tasks) : \E a \in seen : AnsweredBy(a, b)},
                       n - 1)

\* C6: the answered-by-task relation between Tasks has no cycle.
C6_NoCycle ==
    \A t \in 1..Len(tasks) :
        t \notin ReachableFrom({b \in 1..Len(tasks) : AnsweredBy(t, b)}, Len(tasks))

\* ---------------------------------------------------------------- C7
\* the user who may write task t
Writer(t) == tasks[t].editor

\* C7: an accepted save that names existing tasks names only tasks of the
\* question's answer-type module that the acting user may read; a request
\* the view refuses leaves every answer's history as it was.
C7_OnlyValidTasksLinked ==
    [][ /\ (OkPost(resp', "save") /\ resp'.value = "ids") =>
            \A r \in resp'.refs :
                /\ TaskExists(tasks, r)
                /\ tasks[r].module = answer_type_module(resp'.question)
                /\ has_read_priv(tasks, r, Writer(resp'.task))
        /\ resp'.status # "ok" =>
            /\ \A x \in answers : x \in answers' /\ history'[x] = history[x]
            /\ \A x \in answers' \ answers : history'[x] = <<>>
      ]_vars

\* a save naming a task was accepted
C7_Witness ==
    /\ OkPost(resp, "save") /\ resp.value = "ids" /\ resp.refs # {}
    /\ get_current_answer(Hist(answers, history, resp.task, resp.question)).answered_by_task
            = resp.refs

\* ---------------------------------------------------------------- C8
\* C8: the current answer of a "module" question never references more
\* than one task, and an accepted save naming tasks for it names one.
C8_ModuleAnswerHasOneTask ==
    /\ \A x \in answers :
        (QType(x[2]) = "module" /\ has_answer(history[x]))
            => Cardinality(get_current_answer(history[x]).answered_by_task) <= 1
    /\ (OkPost(resp, "save") /\ resp.value = "ids" /\ QType(resp.question) = "module")
            => Cardinality(resp.refs) = 1

\* a "module" question answered by one named task
C8_Witness ==
    /\ OkPost(resp, "save") /\ resp.value = "ids" /\ QType(resp.question) = "module"
    /\ Cardinality(get_current_answer(
            Hist(answers, history, resp.task, resp.question)).answered_by_task) = 1

\* ---------------------------------------------------------------- C9
\* the tasks made by Task.create in next_question
CreatedTasks == {k \in 1..Len(tasks) : k > Len(InitTasks)}

\* task k is the value of an entry of some answer
Linked(k) ==
    \E x \in answers : \E i \in 1..Len(history[x]) : k \in history[x][i].answered_by_task

\* C9: no request is served a page from a state in which a task made for
\* "__new" exists and is not linked from an answer.
C9_NoUnlinkedTaskObserved ==
    (resp.method = "GET" /\ resp.status \in {"question", "finished"})
        => \A k \in CreatedTasks : Linked(k)

\* --------------------------------------------------------------- C10
\* C10: a request that fails leaves Task, TaskAnswer and TaskAnswerHistory
\* rows as they were.
C10_FailureChangesNothing ==
    [][ resp'.status \in {"error", "exception"} =>
            UNCHANGED <<tasks, answers, history>> ]_vars

\* --------------------------------------------------------------- C11
\* C11: in every state, every task that the current answer of a "module" or
\* "module-set" question references exists and is an instance of the module
\* declared as the question's answer type, whether it was selected among
\* the existing tasks or made by "__new".
C11_ReferencedTasksOfAnswerType ==
    \A x \in answers :
        QType(x[2]) \in {"module", "module-set"} =>
            \A k \in get_current_answer(history[x]).answered_by_task :
                /\ TaskExists(tasks, k)
                /\ tasks[k].module = answer_type_module(x[2])

\* one answer references a task made by "__new", and a save that selected
\* an existing task was accepted
C11_Witness ==
    /\ \E x \in answers :
            get_current_answer(history[x]).answered_by_task \cap CreatedTasks # {}
    /\ OkPost(resp, "save") /\ resp.value = "ids" /\ resp.refs # {}
    /\ get_current_answer(Hist(answers, history, resp.task, resp.question)).answered_by_task
            = resp.refs

\* --------------------------------------------------------------- C12
\* C12: in every state, the question of every TaskAnswer row (task,
\* question) is one of the questions of the task's module, after any
\* sequence of next_question and start_a_discussion requests.
C12_AnswerQuestionOfTaskModule ==
    \A x \in answers : x[2] \in ModuleQuestions(tasks[x[1]].module)

\* --------------------------------------------------------------- C13
\* C13: no page returns a task or a project of another organization than
\* the one of the request: neither the candidate answer tasks of a question
\* page nor the projects of the homepage.
C13_LookupsScopedByOrganization ==
    /\ resp.status = "question" =>
            \A k \in resp.listed : ProjectOrg(tasks[k].project) = resp.org
    /\ resp.status = "home" =>
            \A p \in resp.projects : ProjectOrg(p) = resp.org

\* --------------------------------------------------------------- C14
\* every question the ask-condition of q depends on is answered or imputed
DepsResolved(t, q) ==
    QCond(q) = NoCond \/ Resolved(answers, history, t, QCond(q).dep)

\* the ask-condition of q is true on the values known now
CondTrue(t, q) ==
    QCond(q) = NoCond \/ KnownValue(answers, history, t, QCond(q).dep) = QCond(q).eq

\* the three partitions of the questions of task t
PartAnswered(t) ==
    {q \in ModuleQuestions(tasks[t].module) : Resolved(answers, history, t, q)}
PartCanAnswer(t) == Range(can_answer(tasks, answers, history, t))
PartNotYet(t) ==
    {q \in ModuleQuestions(tasks[t].module) : ~DepsResolved(t, q)}

PartitionsDisjoint(t) ==
    \A pa \in {PartAnswered(t)}, pc \in {PartCanAnswer(t)}, pn \in {PartNotYet(t)} :
        /\ pa \cap pc = {}
        /\ pa \cap pn = {}
        /\ pc \cap pn = {}

\* C14 as stated: a question is in can-answer-now iff its dependencies are
\* answered or imputed and its condition is true, and the partitions are
\* disjoint.
C14_AsStated ==
    \A t \in 1..Len(tasks) :
        /\ \A pc \in {PartCanAnswer(t)} : \A q \in ModuleQuestions(tasks[t].module) :
                q \in pc <=> (DepsResolved(t, q) /\ CondTrue(t, q))
        /\ PartitionsDisjoint(t)

\* C14, amended: a question is in can-answer-now iff it has no answer, its
\* dependencies are answered or imputed and its condition is true; the
\* partitions answered, can-answer-now and not-yet-reachable are disjoint.
C14_CanAnswerNowPartition ==
    \A t \in 1..Len(tasks) :
        /\ \A pc \in {PartCanAnswer(t)} : \A q \in ModuleQuestions(tasks[t].module) :
                q \in pc <=>
                    (/\ ~has_answer(Hist(answers, history, t, q))
                     /\ DepsResolved(t, q)
                     /\ CondTrue(t, q))
        /\ PartitionsDisjoint(t)

\* qa was answered "yes" and the page of the next question, qb, was served:
\* the three partitions of the task are {qa}, {qb, ...} and {}
C14_Witness ==
    /\ resp.status = "question" /\ resp.next = "qb"
    /\ "qa" \in PartAnswered(resp.task)
    /\ "qb" \in PartCanAnswer(resp.task)

\* --------------------------------------------------------------- C15
\* the page served for task t to a request that named no question
NextPageOf(t) ==
    resp.method = "GET" /\ resp.task = t /\ resp.status \in {"question", "finished"}

\* the answer of question q of task t is the value v
AnsweredWith(t, q, v) ==
    /\ has_answer(Hist(answers, history, t, q))
    /\ get_current_answer(Hist(answers, history, t, q)).stored_value = v

\* C15: for a task of module M3 (A always asked, B asked iff A = "yes"):
\* while A is answered "no", B is imputed null, no page prompts for B and
\* the task is complete (there is no next question and the finished page is
\* served); while A is answered "yes", B is in can_answer until it is
\* answered or skipped, the next page prompts for B, and the task is
\* complete only once B is answered or skipped.
C15_ConditionalQuestion ==
    \A t \in 1..Len(tasks) : tasks[t].module = "M3" =>
        \A ca \in {can_answer(tasks, answers, history, t)} :
            /\ AnsweredWith(t, "A", "no") =>
                    /\ Imputed(answers, history, t, "B")
                    /\ KnownValue(answers, history, t, "B") = None
                    /\ ca = <<>>
                    /\ NextPageOf(t) => resp.status = "finished" /\ resp.next = None
            /\ AnsweredWith(t, "A", "yes") =>
                    /\ ~Imputed(answers, history, t, "B")
                    /\ ~has_answer(Hist(answers, history, t, "B")) =>
                            /\ ca = <<"B">>
                            /\ NextPageOf(t) => resp.status = "question" /\ resp.next = "B"
                    /\ has_answer(Hist(answers, history, t, "B")) =>
                            /\ ca = <<>>
                            /\ NextPageOf(t) => resp.status = "finished"

\* A was answered "no" after B had been answered, and the finished page was
\* served
C15_Witness ==
    \E t \in 1..Len(tasks) :
        /\ tasks[t].module = "M3"
        /\ AnsweredWith(t, "A", "no")
        /\ Len(Hist(answers, history, t, "B")) > 0
        /\ NextPageOf(t) /\ resp.status = "finished"

\* --------------------------------------------------------------- C16
\* C16: whenever a task has no can-answer-now question, every question of
\* its module is resolved (answered or imputed), every question whose
\* condition is false is imputed with the value null, and the finished page
\* lists exactly the resolved questions that are not imputed.
C16_ResolvedSetIsTotal ==
    \A t \in 1..Len(tasks) :
        can_answer(tasks, answers, history, t) = <<>> =>
            /\ \A q \in ModuleQuestions(tasks[t].module) :
                    /\ Resolved(answers, history, t, q)
                    /\ (DepsResolved(t, q) /\ ~CondTrue(t, q)) =>
                            /\ Imputed(answers, history, t, q)
                            /\ KnownValue(answers, history, t, q) = None
            /\ (NextPageOf(t) /\ resp.status = "finished") =>
                    /\ {e.question : e \in resp.all_questions}
                            = {q \in ModuleQuestions(tasks[t].module) :
                                    ~Imputed(answers, history, t, q)}
                    /\ \A e \in resp.all_questions :
                            /\ has_answer(Hist(answers, history, t, e.question))
                            /\ e.skipped <=> AnsweredWith(t, e.question, None)

\* the finished page of a task of M3 lists A alone: B is imputed
C16_Witness ==
    \E t \in 1..Len(tasks) :
        /\ tasks[t].module = "M3"
        /\ NextPageOf(t) /\ resp.status = "finished"
        /\ Imputed(answers, history, t, "B")
        /\ resp.all_questions = {[question |-> "A", skipped |-> FALSE]}

\* --------------------------------------------------------------- C17
\* the place of question q in the definition order of module m
DefinitionIndex(m, q) ==
    CHOOSE i \in 1..Len(DefinitionOrder(m)) : DefinitionOrder(m)[i] = q

\* C17: can_answer is in the definition order of the module, and the page
\* served when no question is named shows the can-answer-now question that
\* is first in that order.
C17_NextQuestionInDefinitionOrder ==
    \A t \in 1..Len(tasks) :
        \A ca \in {can_answer(tasks, answers, history, t)} :
            /\ \A i, j \in 1..Len(ca) :
                    i < j => DefinitionIndex(tasks[t].module, ca[i])
                                < DefinitionIndex(tasks[t].module, ca[j])
            /\ (NextPageOf(t) /\ resp.status = "question") =>
                    /\ resp.next \in Range(ca)
                    /\ \A q \in Range(ca) :
                            DefinitionIndex(tasks[t].module, resp.next)
                                <= DefinitionIndex(tasks[t].module, q)

\* qm is shown next while qs can be answered too
C17_Witness ==
    /\ resp.status = "question" /\ resp.next = "qm"
    /\ "qs" \in PartCanAnswer(resp.task)
    /\ "qa" \in PartAnswered(resp.task)

\* --------------------------------------------------------------- C18
\* what the resolver returns for task t: the known values, the imputed
\* questions and the can-answer-now sequence
Resolution(ts, ans, hist, t) ==
    [values |-> [q \in {k \in ModuleQuestions(ts[t].module) : Resolved(ans, hist, t, k)}
                    |-> KnownValue(ans, hist, t, q)],
     imputed |-> {q \in ModuleQuestions(ts[t].module) : Imputed(ans, hist, t, q)},
     can_answer |-> can_answer(ts, ans, hist, t)]

AnswerState(h) ==
    IF Len(h) = 0 THEN "unanswered"
    ELSE IF h[Len(h)].cleared THEN "cleared" ELSE "answered"

\* the transitions of the state machine; cleared behaves as unanswered, so
\* an answer may follow it
AnswerTransitions ==
    {<<"unanswered", "answered">>, <<"answered", "answered">>,
     <<"answered", "cleared">>, <<"cleared", "answered">>}

\* C19: the state of every (task, question) changes along the transitions
\* unanswered -> answered, answered -> answered, answered -> cleared and
\* cleared -> answered only; an accepted save or skip leaves it answered,
\* an accepted clear moves it to cleared from answered and changes nothing
\* otherwise, and a cleared answer is shown and asked like an unanswered
\* one.
C19_AnswerStateMachine ==
    [][ /\ \A x \in answers' :
                \A s \in {AnswerState(Hist(answers, history, x[1], x[2]))},
                   s1 \in {AnswerState(history'[x])} :
                    /\ s # s1 => <<s, s1>> \in AnswerTransitions
                    /\ (s = s1 /\ history'[x] # Hist(answers, history, x[1], x[2]))
                            => s = "answered"
                    /\ s1 = "cleared" =>
                            /\ ~ShownAnswer(history'[x])
                            /\ CanAnswerNow(answers', history', x[1], x[2])
                                    = Visible(answers', history', x[1], x[2])
        /\ resp'.status = "ok" =>
                \A s \in {AnswerState(Hist(answers, history, resp'.task, resp'.question))},
                   s1 \in {AnswerState(Hist(answers', history', resp'.task, resp'.question))} :
                    /\ resp'.method \in {"save", "skip"} => s1 = "answered"
                    /\ resp'.method = "clear" =>
                            s1 = (IF s = "answered" THEN "cleared" ELSE s)
      ]_vars

\* an answer was saved, cleared and saved again
C19_Witness ==
    /\ OkPost(resp, "save")
    /\ \E h \in {Hist(answers, history, resp.task, resp.question)} :
            /\ Len(h) = 3
            /\ ~h[1].cleared /\ h[2].cleared /\ ~h[3].cleared

\* --------------------------------------------------------------- C20
IsPrefix(h, h1) ==
    Len(h) <= Len(h1) /\ \A i \in 1..Len(h) : h1[i] = h[i]

\* C20: the history of every answer only grows at its end, by at most one
\* entry a request, and no entry is changed or removed; after an accepted
\* clear of an answer its last entry has the cleared flag, after an
\* accepted skip the last entry is a null value without the flag, and a
\* question never answered has no history.
C20_HistoryAppendOnly ==
    [][ /\ \A x \in answers :
                /\ x \in answers'
                /\ IsPrefix(history[x], history'[x])
                /\ Len(history'[x]) <= Len(history[x]) + 1
        /\ \A x \in answers' \ answers : Len(history'[x]) <= 1
        /\ resp'.status = "ok" =>
                \A h \in {Hist(answers, history, resp'.task, resp'.question)},
                   h1 \in {Hist(answers', history', resp'.task, resp'.question)} :
                    /\ (resp'.method = "clear" /\ has_answer(h)) =>
                            h1[Len(h1)].cleared /\ Len(h1) = Len(h) + 1
                    /\ (resp'.method = "clear" /\ ~has_answer(h)) => h1 = h
                    /\ resp'.method = "skip" =>
                            /\ Len(h1) > 0
                            /\ h1[Len(h1)] = NullAnswer
                            /\ get_current_answer(h1) # NoAnswer
      ]_vars

\* a value was saved, then skipped, then cleared: three entries
C20_Witness ==
    /\ OkPost(resp, "clear")
    /\ \E h \in {Hist(answers, history, resp.task, resp.question)} :
            /\ Len(h) = 3
            /\ h[1].stored_value # None
            /\ h[2] = NullAnswer
            /\ h[3].cleared


\* ----------------------------------------------------------------- C21
\* the save of session s commits its answer in this step
SaveCommits(s) ==
    /\ inflight[s].pc = "store"
    /\ inflight[s].method = "save"
    /\ inflight'[s] = Idle

C22_DeleteUndelete ==
    [][\A state \in {"delete", "undelete"} :
          (/\ resp'.status = "ok"
           /\ resp'.method = state
           /\ \E u \in Users, o \in Orgs, t \in DOMAIN tasks :
                 ChangeTaskState(u, o, t, state))
          => /\ deleted' = (IF state = "delete"
                            THEN deleted \cup {resp'.task}
                            ELSE deleted \ {resp'.task})
             /\ UNCHANGED <<tasks, answers, history>>]_vars

\* a Task that has an answer was undeleted and is not deleted, while the
\* Task that answers one of its questions is deleted
C22_Witness ==
    /\ resp.status = "ok"
    /\ resp.method = "undelete"
    /\ resp.task \in DOMAIN tasks
    /\ resp.task \notin deleted
    /\ \E x \in answers : x[1] = resp.task /\ has_answer(history[x])
    /\ \E t \in deleted : \E x \in answers :
            has_answer(history[x]) /\ t \in get_current_answer(history[x]).answered_by_task


\* ----------------------------------------------------------------- C23
\* the value that the save "in" proposes for q is one that must be rejected:
\* it is malformed, or it names existing tasks of which one is of another
\* module or unreadable by u, or too many or too few of them
RejectedValue(u, q, in) ==
    /\ in.method = "save"
    /\ \/ ~ValidValue(q, in.value) /\ ~(QType(q) = "file" /\ in.value = None)
       \/ /\ QType(q) \in {"module", "module-set"}
          /\ in.value = "ids"
          /\ \A i \in 1..Len(in.refs) : TaskExists(tasks, in.refs[i])
          /\ \/ \E i \in 1..Len(in.refs) :
                    ~TaskIsValidAnswer(tasks, q, u, in.refs[i])
             \/ ~RefCountOK(q, in.refs)

\* C23: every save by a user with write privilege whose proposed value is
\* rejected is answered with status "error" (a structured message), never
\* with an unhandled exception.
C23_RejectionIsStructuredError ==
    [][resp'.status \notin {"error", "ok", "question", "finished"} =>
         \A t \in DOMAIN tasks :
         \A q \in ModuleQuestions(tasks[t].module) :
         \A in \in PostInputs(tasks, q) :
            ~(/\ RejectedValue(Writer(t), q, in)
              /\ Post(Writer(t), ProjectOrg(tasks[t].project), t, q, in))]_vars


\* ----------------------------------------------------------------- C24
\* C24: no caller of the renderer is served a page with the output
\* documents of a task whose template uses a variable that no answer
\* covers: neither the module-finished page nor the project page.
C24_RenderingFailsHard ==
    (resp.status \in {"finished", "project"} /\ resp.task \in DOMAIN tasks)
        => UncoveredVars(tasks[resp.task].module) = {}


\* ----------------------------------------------------------------- C25
\* a request of next_question, GET or POST, for task t
RequestOn(t) ==
    \E u \in Users :
        \/ \E qparam \in GetRequests(ProjectOrg(tasks[t].project), t) :
                Get(u, ProjectOrg(tasks[t].project), t, qparam)
        \/ \E rq \in PostRequests(u, ProjectOrg(tasks[t].project), t) :
                Post(u, ProjectOrg(tasks[t].project), t, rq.q, rq.in)

\* C25: when a question of a task's module has a condition on a key that
\* the module does not define, every request for the task fails with a
\* configuration error and stores nothing: no page is served on which the
\* question was silently left out or imputed.
C25_UndefinedKeyFails ==
    [][\A t \in DOMAIN tasks :
          (/\ \E q \in ModuleQuestions(tasks[t].module) :
                    QCond(q) # NoCond
                    /\ QCond(q).dep \notin ModuleQuestions(tasks[t].module)
           /\ RequestOn(t))
          => /\ resp'.status = "configuration-error"
             /\ UNCHANGED <<tasks, answers, history>>]_vars

\* a request for a task of module M5 was refused for the module's
\* definition, and question Z has no answer, given or imputed
C25_Witness ==
    /\ resp.status = "configuration-error"
    /\ \E t \in DOMAIN tasks :
          /\ tasks[t].module = "M5"
          /\ QCond("Z").dep \notin ModuleQuestions("M5")
          /\ <<t, "Z">> \notin answers


\* ----------------------------------------------------------------- C28
\* C28: a save, skip or clear sent for a task by a user without write
\* privilege on it is answered with Forbidden, records no instrumentation
\* event and leaves every Task, TaskAnswer and TaskAnswerHistory row as it
\* was.
C28_NonWriterChangesNothing ==
    [][\/ /\ resp'.status = "forbidden"
          /\ resp'.event = None
          /\ UNCHANGED <<tasks, answers, history>>
       \/ \A u \in Users, t \in DOMAIN tasks :
            ~has_write_priv(tasks, t, u) =>
                \A q \in ModuleQuestions(tasks[t].module) :
                \A in \in {x \in PostInputs(tasks, q) :
                                x.method \in {"save", "skip", "clear"}} :
                    ~Post(u, ProjectOrg(tasks[t].project), t, q, in)]_vars

\* bob, who may read task 1 and not write it, was refused, while the task
\* has an answer that its editor gave
C28_Witness ==
    /\ resp.status = "forbidden"
    /\ ~has_write_priv(tasks, 1, "bob")
    /\ has_read_priv(tasks, 1, "bob")
    /\ \E x \in answers : x[1] = 1 /\ has_answer(history[x])


\* ----------------------------------------------------------------- C29
\* C29: once an invitation is accepted, it stays accepted by the same user
\* and its target's accept action is not run again; a later
\* accept_invitation request for it is answered with the redirect alone and
\* changes no Invitation and adds no ProjectMembership.
C29_AcceptedOnce ==
    [][\A i \in DOMAIN invitations :
          invitations[i].accepted =>
            /\ invitations'[i].accepted
            /\ invitations'[i].accepted_user = invitations[i].accepted_user
            /\ invitations'[i].accept_runs = invitations[i].accept_runs
            /\ (resp'.method = "accept" /\ resp'.task = i) =>
                    /\ resp'.status = "redirect"
                    /\ UNCHANGED <<invitations, memberships>>]_vars

\* a second click on an invitation that was accepted into the project team
C29_Witness ==
    /\ resp.status = "redirect"
    /\ resp.method = "accept"
    /\ resp.task \in DOMAIN invitations
    /\ invitations[resp.task].accepted
    /\ invitations[resp.task].accept_runs = 1
    /\ invitations[resp.task].into_project
    /\ Len(memberships) = 1

\* ----------------------------------------------------------------- C30
\* C30: an invitation that was revoked before it was accepted is not
\* accepted afterwards.
C30_RevokedNeverAccepted ==
    [][\A i \in DOMAIN invitations :
          (invitations[i].revoked /\ ~invitations[i].accepted)
              => ~invitations'[i].accepted]_vars


\* ----------------------------------------------------------------- C31
\* C31: in every state, an invitation is stored as accepted, with its
\* accepting user, exactly when the target's accept action has run for it
\* (once), and the ProjectMembership rows made by acceptances are exactly
\* those of the accepted invitations that add to the project team: a
\* failed acceptance leaves none of these effects.
C31_AcceptAllOrNothing ==
    /\ \A i \in DOMAIN invitations :
          /\ invitations[i].accepted <=> invitations[i].accept_runs = 1
          /\ invitations[i].accepted <=> invitations[i].accepted_user # None
          /\ invitations[i].accept_runs \in {0, 1}
    /\ Len(memberships) =
          Cardinality({i \in DOMAIN invitations :
                          invitations[i].accepted /\ invitations[i].into_project})
    /\ \A k \in 1..Len(memberships) :
          \E i \in DOMAIN invitations :
              /\ invitations[i].accepted /\ invitations[i].into_project
              /\ memberships[k] = <<invitations[i].from_project,
                                    invitations[i].accepted_user>>

\* the acceptance of an invitation into the project team has failed: the
\* invitation is not accepted and there is no ProjectMembership
C31_Witness ==
    /\ resp.status = "exception"
    /\ resp.method = "accept"
    /\ resp.task \in DOMAIN invitations
    /\ invitations[resp.task].into_project
    /\ ~invitations[resp.task].accepted
    /\ memberships = <<>>


\* ----------------------------------------------------------------- C32
\* C32: in every state, for each user and Task there is at most one
\* "task-done" event.
C32_OneTaskDoneEvent ==
    \A u \in Users, t \in DOMAIN tasks :
        CopiesIn(Event(u, "task-done", t, None), events) <= 1

\* ----------------------------------------------------------------- C33
\* C33: in every state there is at most one "task-question-interact-first"
\* event for each user, Task and question; and a request of
\* instrumentation_record_interaction that arrives when the event exists
\* leaves the InstrumentationEvent rows, and every other row, as they are.
C33_OneFirstInteraction ==
    [][\A u \in Users, t \in DOMAIN tasks, q \in Questions :
          /\ CopiesIn(Event(u, "task-question-interact-first", t, q), events') <= 1
          /\ (/\ EventExists(events, u, "task-question-interact-first", t, q)
              /\ resp'.method = "interact"
              /\ \E o \in Orgs : RecordInteraction(u, o, t, q))
             => /\ resp'.event = None
                /\ UNCHANGED <<tasks, answers, history, discussions, events, site>>]_vars

\* a request for a first interaction that is recorded was answered and
\* recorded nothing
C33_Witness ==
    /\ resp.status = "ok"
    /\ resp.method = "interact"
    /\ resp.event = None
    /\ \E u \in Users :
          CopiesIn(Event(u, "task-question-interact-first",
                         resp.task, resp.question), events) = 1


\* ----------------------------------------------------------------- C34
\* C34: a save for a "file" question that carries no file, sent by a user
\* who may write the task, is answered "ok", records no instrumentation
\* event and leaves every Task, TaskAnswer and TaskAnswerHistory row as it
\* was (no TaskAnswer row is made, the current answer and its history stay).
C34_EmptyFileSaveKeepsAnswer ==
    [][\A t \in DOMAIN tasks :
       \A q \in {k \in ModuleQuestions(tasks[t].module) : QType(k) = "file"} :
          Post(Writer(t), ProjectOrg(tasks[t].project), t, q,
               [method |-> "save", value |-> None, refs |-> <<>>])
          => /\ resp'.status = "ok"
             /\ resp'.event = None
             /\ UNCHANGED <<tasks, answers, history>>]_vars

\* a save without a file was accepted for a question whose current answer
\* is the file "f1"
C34_Witness ==
    /\ OkPost(resp, "save")
    /\ resp.question \in Questions
    /\ QType(resp.question) = "file"
    /\ resp.value = None
    /\ resp.event = None
    /\ \E h \in {Hist(answers, history, resp.task, resp.question)} :
          has_answer(h) /\ get_current_answer(h).answered_by_file = "f1"


MustRefuse(method, u, o, t, state) ==
    \/ method # "POST"
    \/ ~TaskInOrg(tasks, t, o)
    \/ ~has_write_priv(tasks, t, u)
    \/ state \notin {"delete", "undelete"}

\* C36: the deleted state of a Task changes only by a POST of
\* change_task_state for a Task of the request's organization, sent by a
\* user with write privilege on it, with state "delete" or "undelete", and
\* then only for that Task; a request that is not a POST, or is sent by a
\* user without write privilege, or names a Task outside the request's
\* organization, or another state, leaves every Task, its deleted state, its
\* answers and their history unchanged.
C36_OnlyWritersChangeState ==
    [][/\ deleted' # deleted
          => \E u \in Users, o \in Orgs, t \in DOMAIN tasks :
             \E state \in {"delete", "undelete"} :
                /\ TaskInOrg(tasks, t, o)
                /\ has_write_priv(tasks, t, u)
                /\ resp' = StateResponse("ok", t, state)
                /\ \A k \in DOMAIN tasks \ {t} : k \in deleted' <=> k \in deleted
       /\ resp'.status \in {"405", "404", "forbidden"} /\ resp'.method \in TaskStates
          => \A method \in HttpMethods, u \in Users, o \in Orgs :
                (/\ MustRefuse(method, u, o, resp'.task, resp'.method)
                 /\ ChangeTaskStateRequest(method, u, o, resp'.task, resp'.method))
                => UNCHANGED <<tasks, answers, history, deleted>>]_vars

\* a user without write privilege asked to undelete a deleted Task that has
\* an answer, and the Task is still deleted
C36_Witness ==
    /\ resp.status = "forbidden"
    /\ resp.method = "undelete"
    /\ resp.task \in deleted
    /\ \E u \in Users : ~has_write_priv(tasks, resp.task, u)
    /\ \E x \in answers : x[1] = resp.task /\ has_answer(history[x])

\* ----------------------------------------------------------------- C37
\* the request of u, naming project p, may transfer the editorship of t
MayTransfer(u, p, t) ==
    /\ TaskExists(tasks, t)
    /\ tasks[t].editor = u
    /\ u \in ProjectMembers(p) => tasks[t].project = p

\* the invitations that were sent
SentInvitations(invs) == {i \in DOMAIN invs : invs[i].sent}

\* C37: every Invitation that transfers the editorship of a Task is created
\* by a request of the Task's editor and comes from the Task's project, and
\* a send_invitation request for the editorship of a Task that is not sent by
\* its editor, or that names a project the user is a member of and the Task
\* is not in, creates no Invitation and sends none.
C37_OnlyEditorTransfers ==
    [][resp'.method = "send" =>
         /\ \A i \in DOMAIN invitations' \ DOMAIN invitations :
                invitations'[i].what = "editor" =>
                    /\ TaskExists(tasks, invitations'[i].target)
                    /\ tasks[invitations'[i].target].editor = invitations'[i].from_user
                    /\ tasks[invitations'[i].target].project
                            = invitations'[i].from_project
         /\ \A u \in Users, p \in Projects, t \in TaskIds(tasks) :
            \A to \in {"alice", None}, add_to_team \in BOOLEAN :
                (SendInvitation(u, p, to, add_to_team, t) /\ ~MayTransfer(u, p, t))
                => /\ invitations' = invitations
                   /\ SentInvitations(invitations') = SentInvitations(invitations)
                   /\ resp'.status \in {"error", "forbidden"}]_vars

\* bob, a member of both projects, got the invitation to take the task that
\* alice edits in P1 from a request that named P2, of which alice is no
\* member
C37_Witness ==
    /\ resp.status = "ok"
    /\ resp.method = "send"
    /\ Len(invitations) = 1
    /\ invitations[1].what = "editor"
    /\ invitations[1].from_user = "alice"
    /\ invitations[1].from_project = "P1"
    /\ invitations[1].target = 1
    /\ tasks[1].editor = "alice"

====
